---- MODULE Spec2Model ----
(***************************************************************************)
(* Model of src/altcoin_visualizer.py (class AltcoinRatioVisualizer): the  *)
(* order-book depth curves and statistics computed by                      *)
(* create_orderbook_depth_chart and by the bottom panel of                 *)
(* create_combined_chart, the figure each call builds and writes, the     *)
(* trace order of create_altcoin_ratio_chart, and the bars drawn by        *)
(* add_order_flow_profile.                                                 *)
(*                                                                         *)
(* Numbers are Python ints (exact, unbounded).  The result of a true       *)
(* division is kept as a fraction in lowest terms with a positive          *)
(* denominator, so two quotients are equal exactly when their values are.  *)
(* A level is the pair <<price, qty>>, as the [price, qty] lists of the    *)
(* source.  Binary floating-point rounding is not modelled.                *)
(***************************************************************************)
EXTENDS Integers, Sequences, FiniteSets, TLC

(***************************************************************************)
(* Bounds of the model.                                                    *)
(***************************************************************************)
MaxLevels == 2

MaxRows == 2

Prices == {100, 101}

Quantities == {-1, 0, 1}

Symbols == {"BTCUSDT"}

(***************************************************************************)
(* Python values.                                                          *)
(***************************************************************************)
None == [type |-> "NoneType"]

EmptyDict == [type |-> "dict"]

\* bool(x) of a list: a non-empty list is true.
TruthyList(xs) == Len(xs) > 0

\* bool(x) of the orderbook_data argument: None and {} are false.
Truthy(ob) == ob # None /\ ob # EmptyDict

Abs(n) == IF n < 0 THEN -n ELSE n

RECURSIVE Gcd(_, _)
Gcd(a, b) == IF b = 0 THEN a ELSE Gcd(b, a % b)

\* The value of a quotient n / d, d # 0, in lowest terms.
Fraction(n, d) ==
  LET g == Gcd(Abs(n), Abs(d))
      s == IF d < 0 THEN -1 ELSE 1
  IN  [num |-> (s * n) \div g, den |-> (s * d) \div g]

\* What a / b raises when b = 0.
ZeroDivisionError == [num |-> 0, den |-> 0]

\* Python's a / b.
TrueDiv(a, b) == IF b = 0 THEN ZeroDivisionError ELSE Fraction(a, b)

\* The int 0 where a quotient is expected (0 == 0.0 in Python).
Zero == Fraction(0, 1)

\* f"{x:.<d>f}": the value rounded to d decimals, ties to even, as the number
\* of units of 10^-d (scale = 10^d).  x is a fraction.
FormatFixed(x, scale) ==
  LET n == Abs(x.num) * scale
      q == n \div x.den
      r == n % x.den
      up == (2 * r > x.den) \/ (2 * r = x.den /\ q % 2 = 1)
      m == IF up THEN q + 1 ELSE q
  IN  IF x.num < 0 THEN -m ELSE m

\* f"{x:.2f}"
Format2f(x) == FormatFixed(x, 100)

\* f"{x:.3f}"
Format3f(x) == FormatFixed(x, 1000)

(***************************************************************************)
(* The inputs of a call.                                                   *)
(***************************************************************************)
Levels == Prices \X Quantities

LevelLists == UNION {[1..k -> Levels] : k \in 0..MaxLevels}

\* The example snapshot of the specification's testable properties.
ExampleSnapshot ==
  [symbol |-> "BTCUSDT",
   bids |-> << <<100, 2>>, <<99, 3>> >>,
   asks |-> << <<101, 1>>, <<102, 4>> >>]

Snapshots ==
  [symbol : Symbols, bids : LevelLists, asks : LevelLists] \cup {ExampleSnapshot}

OrderbookInputs == Snapshots \cup {None, EmptyDict}

(***************************************************************************)
(* The depth curve of one side.                                            *)
(***************************************************************************)
\* [price for price, _ in levels]
PricesOf(levels) == [i \in 1..Len(levels) |-> levels[i][1]]

\* [qty for _, qty in levels]
VolumesOf(levels) == [i \in 1..Len(levels) |-> levels[i][2]]

\* cumsum = 0; for vol in volumes: cumsum += vol; cumulative.append(cumsum)
\* run on volumes[i..], with cumsum and the list built so far.
RECURSIVE CumulativeLoop(_, _, _, _)
CumulativeLoop(volumes, i, cumsum, cumulative) ==
  IF i > Len(volumes) THEN cumulative
  ELSE CumulativeLoop(volumes, i + 1, cumsum + volumes[i],
                      Append(cumulative, cumsum + volumes[i]))

\* The loop appends before it adds: each point lags one level behind.
CumulativeLagging(volumes) ==
  [i \in 1..Len(volumes) |-> CumulativeLoop(volumes, 1, 0, <<>>)[i] - volumes[i]]

\* cumsum is never carried: each point is the level's own quantity.
CumulativeNoCarry(volumes) == volumes

Cumulative(volumes) == CumulativeLoop(volumes, 1, 0, <<>>)

\* sum(qty for _, qty in levels): a left fold from 0.
RECURSIVE SumFrom(_, _, _)
SumFrom(levels, i, acc) ==
  IF i > Len(levels) THEN acc ELSE SumFrom(levels, i + 1, acc + levels[i][2])

\* The sum leaves the first level out.
SumQtySkippingFirst(levels) == SumFrom(levels, 2, 0)

\* The comprehension takes the first element of each level, the price.
SumQtyOfPrices(levels) ==
  SumFrom([i \in 1..Len(levels) |-> <<levels[i][2], levels[i][1]>>], 1, 0)

SumQty(levels) == SumFrom(levels, 1, 0)

\* The guard lets a zero ask volume through to the division.
ImbalanceGuardNonNegative(bid_volume, ask_volume) ==
  IF ask_volume >= 0 THEN TrueDiv(bid_volume, ask_volume) ELSE Zero

\* bid_volume / ask_volume if ask_volume > 0 else 0
Imbalance(bid_volume, ask_volume) ==
  IF ask_volume > 0 THEN TrueDiv(bid_volume, ask_volume) ELSE Zero

\* A missing best bid counts as price 0.
SpreadMissingBidAsZero(bids, asks) ==
  IF TruthyList(asks) /\ TruthyList(bids) THEN asks[1][1] - bids[1][1]
  ELSE IF TruthyList(asks) THEN asks[1][1] ELSE 0

\* asks[0][0] - bids[0][0] if asks and bids else 0
Spread(bids, asks) ==
  IF TruthyList(asks) /\ TruthyList(bids) THEN asks[1][1] - bids[1][1] ELSE 0

\* The exception a division leaves in the locals, if any.
NoException == "none"

Raised(stats) ==
  IF stats.imbalance = ZeroDivisionError THEN "ZeroDivisionError" ELSE NoException

Str(s) == [type |-> "str", value |-> s]

(***************************************************************************)
(* create_orderbook_depth_chart, lines 337-443.                            *)
(***************************************************************************)
DepthChartFile == "orderbook_depth.html"

\* The running sum is written back into the caller's levels.
DepthChartSideInPlace(levels) ==
  [prices |-> PricesOf(levels),
   cumulative |-> Cumulative(VolumesOf(levels)),
   levels |-> [i \in 1..Len(levels) |->
                 <<levels[i][1], Cumulative(VolumesOf(levels))[i]>>]]

\* lines 353-359 (bids) and 361-367 (asks): the depth curve of one side.
\* levels is the caller's list (bids = orderbook_data['bids'] is an alias, not
\* a copy); the comprehensions and the loop build new lists and never assign
\* into it, so the list after the loop is the list before it.
DepthChartSide(levels) ==
  [prices |-> PricesOf(levels),
   cumulative |-> Cumulative(VolumesOf(levels)),
   levels |-> levels]

\* lines 373-396: go.Scatter(x=prices, y=cumulative, fill='tozeroy', ...).
DepthChartTrace(name, side) ==
  [name |-> name, x |-> side.prices, y |-> side.cumulative, fill |-> "tozeroy",
   row |-> 0]

\* lines 399-405: the best bid and best ask markers.
DepthChartMarkers(bids, asks) ==
  (IF TruthyList(bids)
     THEN << [x |-> bids[1][1], text |-> "Best Bid", row |-> 0] >> ELSE <<>>)
  \o
  (IF TruthyList(asks)
     THEN << [x |-> asks[1][1], text |-> "Best Ask", row |-> 0] >> ELSE <<>>)

\* The statistics with a spread percentage, spread / best bid x 100, added.
DepthChartStatisticsWithPct(bids, asks) ==
  [bid_volume |-> SumQty(bids),
   ask_volume |-> SumQty(asks),
   imbalance |-> Imbalance(SumQty(bids), SumQty(asks)),
   spread |-> Spread(bids, asks),
   spread_pct |-> IF TruthyList(asks) /\ TruthyList(bids)
                    THEN TrueDiv(100 * Spread(bids, asks), bids[1][1])
                    ELSE Zero]

\* lines 408-411: the locals the four statements leave.
DepthChartStatistics(bids, asks) ==
  [bid_volume |-> SumQty(bids),
   ask_volume |-> SumQty(asks),
   imbalance |-> Imbalance(SumQty(bids), SumQty(asks)),
   spread |-> Spread(bids, asks)]

\* lines 415-416: the title, with spread and ratio formatted :.2f.
DepthChartTitle(stats, symbol) ==
  [symbol |-> symbol,
   spread |-> Format2f(Fraction(stats.spread, 1)),
   ratio |-> Format2f(stats.imbalance)]

\* lines 345-347: no order book data.
DepthChartNoData(slf, ob) ==
  [self |-> slf, orderbook_data |-> ob, fig |-> None, stats |-> None,
   raised |-> NoException, writes |-> <<>>, ret |-> None]

\* lines 349-443.
DepthChartBody(slf, ob) ==
  LET bid == DepthChartSide(ob.bids)
      ask == DepthChartSide(ob.asks)
      data == [ob EXCEPT !.bids = bid.levels, !.asks = ask.levels]
      traces == << DepthChartTrace("Bid Depth", bid),
                   DepthChartTrace("Ask Depth", ask) >>
      vlines == DepthChartMarkers(data.bids, data.asks)
      stats == DepthChartStatistics(data.bids, data.asks)
  IN  IF Raised(stats) # NoException
        THEN [self |-> slf, orderbook_data |-> data,
              fig |-> [traces |-> traces, vlines |-> vlines, hlines |-> <<>>,
                       annotations |-> <<>>, title |-> None],
              stats |-> stats, raised |-> Raised(stats), writes |-> <<>>,
              ret |-> None]
        ELSE [self |-> slf, orderbook_data |-> data,
              fig |-> [traces |-> traces, vlines |-> vlines, hlines |-> <<>>,
                       annotations |-> <<>>,
                       title |-> DepthChartTitle(stats, data.symbol)],
              stats |-> stats, raised |-> NoException,
              writes |-> << DepthChartFile >>, ret |-> Str(DepthChartFile)]

\* cumsum kept as an attribute of the instance and never reset: every curve
\* starts where the curves of the calls before it ended.
DepthChartCarryingCumsum(slf, ob) ==
  IF ~Truthy(ob) THEN DepthChartNoData(slf, ob)
  ELSE LET r == DepthChartBody(slf, ob)
           c == IF "cumsum" \in DOMAIN slf THEN slf.cumsum ELSE 0
           shifted(t) == [t EXCEPT !.y = [i \in 1..Len(t.y) |-> t.y[i] + c]]
       IN  [r EXCEPT
              !.self = [a \in {"cumsum"} |->
                          c + r.stats.bid_volume + r.stats.ask_volume],
              !.fig.traces = [i \in 1..Len(r.fig.traces) |->
                                shifted(r.fig.traces[i])]]

\* A snapshot whose bids and asks are both empty taken for missing data.
DepthChartSkippingEmptyBook(slf, ob) ==
  IF ~Truthy(ob) \/ (ob.bids = <<>> /\ ob.asks = <<>>)
    THEN DepthChartNoData(slf, ob)
    ELSE DepthChartBody(slf, ob)

create_orderbook_depth_chart(slf, ob) ==
  IF ~Truthy(ob) THEN DepthChartNoData(slf, ob) ELSE DepthChartBody(slf, ob)

(***************************************************************************)
(* create_combined_chart, lines 487-899.                                   *)
(***************************************************************************)
CombinedFile == "altcoin_combined.html"

DataFrame(rows) == [type |-> "DataFrame", rows |-> rows]

PyInt(n) == [type |-> "int", value |-> n]

\* A key a dict does not hold.
Missing == [type |-> "missing"]

Dict(bsl, ssl) == [type |-> "dict", bsl |-> bsl, ssl |-> ssl]

\* support_levels is not None and len(support_levels) > 0
HasRows(df) == df # None /\ Len(df.rows) > 0

\* bool(bsl_ssl): None and a dict without keys are false.
TruthyDict(d) == d # None /\ ~(d.bsl = Missing /\ d.ssl = Missing)

\* bsl_ssl and key in bsl_ssl and bsl_ssl[key] is not None
HasLevel(bsl_ssl, key) ==
  TruthyDict(bsl_ssl) /\ bsl_ssl[key] # Missing /\ bsl_ssl[key] # None

\* The six traces with SMA 50 added after EMA 21 instead of before it.
TopTracesSma50AfterEma21 ==
  << [name |-> "BTC/USDT", kind |-> "candlestick", column |-> "close",
      fill |-> "none", row |-> 1],
     [name |-> "Alt Ratio [15M]", kind |-> "candlestick", column |-> "ar_close",
      fill |-> "none", row |-> 1],
     [name |-> "", kind |-> "scatter", column |-> "ar_close",
      fill |-> "none", row |-> 1],
     [name |-> "EMA 21", kind |-> "scatter", column |-> "ema21",
      fill |-> "none", row |-> 1],
     [name |-> "SMA 50", kind |-> "scatter", column |-> "sma50",
      fill |-> "none", row |-> 1],
     [name |-> "SMA 20", kind |-> "scatter", column |-> "sma20",
      fill |-> "tonexty", row |-> 1] >>

\* lines 528-641: the six traces every call adds to row 1, in order.
TopTraces ==
  << [name |-> "BTC/USDT", kind |-> "candlestick", column |-> "close",
      fill |-> "none", row |-> 1],
     [name |-> "Alt Ratio [15M]", kind |-> "candlestick", column |-> "ar_close",
      fill |-> "none", row |-> 1],
     [name |-> "", kind |-> "scatter", column |-> "ar_close",
      fill |-> "none", row |-> 1],
     [name |-> "SMA 50", kind |-> "scatter", column |-> "sma50",
      fill |-> "none", row |-> 1],
     [name |-> "EMA 21", kind |-> "scatter", column |-> "ema21",
      fill |-> "none", row |-> 1],
     [name |-> "SMA 20", kind |-> "scatter", column |-> "sma20",
      fill |-> "tonexty", row |-> 1] >>

\* for idx, level in df.iterrows(): fig.add_hline(y=level['price'],
\* annotation_text=f"S{idx+1}", row=1, col=1)
LevelLines(df, prefix) ==
  IF HasRows(df)
    THEN [i \in 1..Len(df.rows) |->
            [y |-> df.rows[i], text |-> prefix, n |-> i, row |-> 1]]
    ELSE <<>>

\* lines 670-691: the BSL and SSL lines.
LiquidityLines(bsl_ssl) ==
  (IF HasLevel(bsl_ssl, "bsl")
     THEN << [y |-> bsl_ssl.bsl.value, text |-> "BSL", n |-> 0, row |-> 1] >>
     ELSE <<>>)
  \o
  (IF HasLevel(bsl_ssl, "ssl")
     THEN << [y |-> bsl_ssl.ssl.value, text |-> "SSL", n |-> 0, row |-> 1] >>
     ELSE <<>>)

\* len(footprint_df[footprint_df[flag]]) > 0
AnyRow(df, flag) == \E i \in 1..Len(df.rows) : df.rows[i][flag]

\* lines 694-725: the footprint marker traces.
FootprintTraces(footprint_df) ==
  IF ~HasRows(footprint_df) THEN <<>>
  ELSE (IF AnyRow(footprint_df, "is_aggressive_buy")
          THEN << [name |-> "Aggressive Buy", kind |-> "scatter",
                   column |-> "low", fill |-> "none", row |-> 1] >>
          ELSE <<>>)
       \o
       (IF AnyRow(footprint_df, "is_aggressive_sell")
          THEN << [name |-> "Aggressive Sell", kind |-> "scatter",
                   column |-> "high", fill |-> "none", row |-> 1] >>
          ELSE <<>>)

\* lines 734-748: the depth curve of one side; levels is the caller's list.
CombinedSide(levels) ==
  [prices |-> PricesOf(levels),
   cumulative |-> Cumulative(VolumesOf(levels)),
   levels |-> levels]

\* lines 751-776: go.Scatter(x=prices, y=cumulative, fill='tozeroy'), row=2.
CombinedTrace(name, side) ==
  [name |-> name, x |-> side.prices, y |-> side.cumulative, fill |-> "tozeroy",
   row |-> 2]

\* The markers drawn at the last level of each side instead of the first.
CombinedMarkersAtLastLevel(bids, asks) ==
  (IF TruthyList(bids)
     THEN << [x |-> bids[Len(bids)][1], text |-> "Best Bid", row |-> 2] >>
     ELSE <<>>)
  \o
  (IF TruthyList(asks)
     THEN << [x |-> asks[Len(asks)][1], text |-> "Best Ask", row |-> 2] >>
     ELSE <<>>)

\* lines 779-787: the best bid and best ask markers, row=2.
CombinedMarkers(bids, asks) ==
  (IF TruthyList(bids)
     THEN << [x |-> bids[1][1], text |-> "Best Bid", row |-> 2] >> ELSE <<>>)
  \o
  (IF TruthyList(asks)
     THEN << [x |-> asks[1][1], text |-> "Best Ask", row |-> 2] >> ELSE <<>>)

\* lines 790-793: the locals the four statements leave.
CombinedStatistics(bids, asks) ==
  [bid_volume |-> SumQty(bids),
   ask_volume |-> SumQty(asks),
   imbalance |-> Imbalance(SumQty(bids), SumQty(asks)),
   spread |-> Spread(bids, asks)]

\* lines 796-800: the statistics annotation, spread and ratio formatted :.2f.
CombinedStatsText(stats, symbol) ==
  [symbol |-> symbol,
   spread |-> Format2f(Fraction(stats.spread, 1)),
   ratio |-> Format2f(stats.imbalance)]

\* lines 528-725: the figure after the top panel.
TopPanel(top) ==
  [traces |-> TopTraces \o FootprintTraces(top.footprint_df),
   vlines |-> <<>>,
   hlines |-> LevelLines(top.support_levels, "S")
              \o LevelLines(top.resistance_levels, "R")
              \o LiquidityLines(top.bsl_ssl),
   annotations |-> <<>>,
   title |-> None]

\* lines 817-826: the title carries the wall-clock time of the call.
CombinedTitle(now) == [text |-> "Altcoin Terminal", time |-> now]

\* lines 729-815 with order book data, then lines 817-899.
CombinedBottom(slf, top, ob, now) ==
  LET bid == CombinedSide(ob.bids)
      ask == CombinedSide(ob.asks)
      data == [ob EXCEPT !.bids = bid.levels, !.asks = ask.levels]
      panel == TopPanel(top)
      traces == panel.traces
                \o << CombinedTrace("Bid Depth", bid),
                      CombinedTrace("Ask Depth", ask) >>
      vlines == CombinedMarkers(data.bids, data.asks)
      stats == CombinedStatistics(data.bids, data.asks)
  IN  IF Raised(stats) # NoException
        THEN [self |-> slf, orderbook_data |-> data,
              fig |-> [panel EXCEPT !.traces = traces, !.vlines = vlines],
              stats |-> stats, raised |-> Raised(stats), writes |-> <<>>,
              ret |-> None]
        ELSE [self |-> slf, orderbook_data |-> data,
              fig |-> [panel EXCEPT
                         !.traces = traces, !.vlines = vlines,
                         !.annotations =
                            << CombinedStatsText(stats, data.symbol) >>,
                         !.title = CombinedTitle(now)],
              stats |-> stats, raised |-> NoException,
              writes |-> << CombinedFile >>, ret |-> Str(CombinedFile)]

\* The early return of create_orderbook_depth_chart copied here: without
\* order book data nothing is written and None is returned.
CombinedTopOnlyReturningNone(slf, top, ob, now) ==
  [self |-> slf, orderbook_data |-> ob,
   fig |-> TopPanel(top),
   stats |-> None, raised |-> NoException,
   writes |-> <<>>, ret |-> None]

\* lines 528-725, the if of line 729 not taken, then lines 817-899.
CombinedTopOnly(slf, top, ob, now) ==
  [self |-> slf, orderbook_data |-> ob,
   fig |-> [TopPanel(top) EXCEPT !.title = CombinedTitle(now)],
   stats |-> None, raised |-> NoException,
   writes |-> << CombinedFile >>, ret |-> Str(CombinedFile)]

create_combined_chart(slf, top, ob, now) ==
  IF Truthy(ob) THEN CombinedBottom(slf, top, ob, now)
  ELSE CombinedTopOnly(slf, top, ob, now)

(***************************************************************************)
(* create_altcoin_ratio_chart, lines 11-192.  The figure has no subplots:  *)
(* its traces and lines carry row 0.                                       *)
(***************************************************************************)
RatioFile == "altcoin_ratio.html"

\* lines 35-102: the five traces every call adds, in order.
RatioTraces ==
  << [name |-> "BTC/USDT", kind |-> "candlestick", column |-> "close",
      fill |-> "none", row |-> 0],
     [name |-> "Alt Ratio [15M]", kind |-> "candlestick", column |-> "ar_close",
      fill |-> "none", row |-> 0],
     [name |-> "SMA 50", kind |-> "scatter", column |-> "sma50",
      fill |-> "none", row |-> 0],
     [name |-> "EMA 21", kind |-> "scatter", column |-> "ema21",
      fill |-> "none", row |-> 0],
     [name |-> "SMA 20", kind |-> "scatter", column |-> "sma20",
      fill |-> "tonexty", row |-> 0] >>

\* lines 105-126: one line a row, annotated f"S{idx+1}" or f"R{idx+1}".
RatioLevelLines(df, prefix) ==
  IF HasRows(df)
    THEN [i \in 1..Len(df.rows) |->
            [y |-> df.rows[i], text |-> prefix, n |-> i, row |-> 0]]
    ELSE <<>>

\* lines 129-148: the BSL and SSL lines.
RatioLiquidityLines(bsl_ssl) ==
  (IF HasLevel(bsl_ssl, "bsl")
     THEN << [y |-> bsl_ssl.bsl.value, text |-> "BSL", n |-> 0, row |-> 0] >>
     ELSE <<>>)
  \o
  (IF HasLevel(bsl_ssl, "ssl")
     THEN << [y |-> bsl_ssl.ssl.value, text |-> "SSL", n |-> 0, row |-> 0] >>
     ELSE <<>>)

\* lines 151-157: the fixed title.
RatioTitle == [text |-> "Altcoin Ratio [15M] + BSL/SSL + Auto S/R"]

create_altcoin_ratio_chart(slf, top) ==
  [self |-> slf, orderbook_data |-> None,
   fig |-> [traces |-> RatioTraces,
            vlines |-> <<>>,
            hlines |-> RatioLevelLines(top.support_levels, "S")
                       \o RatioLevelLines(top.resistance_levels, "R")
                       \o RatioLiquidityLines(top.bsl_ssl),
            annotations |-> <<>>,
            title |-> RatioTitle],
   stats |-> None, raised |-> NoException,
   writes |-> << RatioFile >>, ret |-> Str(RatioFile)]

(***************************************************************************)
(* add_order_flow_profile, lines 287-335.  Times and durations are exact   *)
(* numbers of minutes, kept as fractions; the nanosecond resolution of     *)
(* pd.Timedelta is not modelled.                                           *)
(***************************************************************************)
\* The defaults of the signature, line 287.
DefaultProfileScale == 20

DefaultOffset == 5

\* The minutes of one candle of the 15m timeframe, lines 297, 304, 317, 323.
CandleMinutes == 15

\* The candles left free between the buy bars and the sell bars, line 317.
SellGap == 2

BuyColor == "rgba(0, 255, 187, 0.7)"

SellColor == "rgba(255, 17, 0, 0.7)"

\* q * n for a quotient q and an int n.
Scaled(q, n) == Fraction(q.num * n, q.den)

\* a + b for two quotients.
Sum(a, b) == Fraction(a.num * b.den + b.num * a.den, a.den * b.den)

\* pd.Timedelta(minutes=n) for an int n.
Minutes(n) == Fraction(n, 1)

\* Python's max(a, b).
PyMax(a, b) == IF b > a THEN b ELSE a

\* profile_df[column].max()
ColumnMax(rows, column) ==
  LET values == {rows[i][column] : i \in 1..Len(rows)}
  IN  CHOOSE m \in values : \A v \in values : v <= m

\* lines 302-314 and 321-333: the rectangle of one row.
ProfileBar(row, volume, max_vol, profile_scale, start, color) ==
  LET width == Scaled(TrueDiv(volume, max_vol), profile_scale)
      bar_start == start
      bar_end == Sum(bar_start, Scaled(width, CandleMinutes))
  IN  [type |-> "rect", x0 |-> bar_start, x1 |-> bar_end,
       y0 |-> row.price_bottom, y1 |-> row.price_top, fillcolor |-> color]

\* lines 300-314: a bar for every row with a buy volume above 0, in order.
BuyBars(rows, current_time, max_vol, profile_scale, time_offset) ==
  LET rs == SelectSeq(rows, LAMBDA r : r.buy_volume > 0)
  IN  [i \in 1..Len(rs) |->
         ProfileBar(rs[i], rs[i].buy_volume, max_vol, profile_scale,
                    Sum(current_time, time_offset), BuyColor)]

\* The sell bars started right after the offset, where the buy bars start.
SellOffsetOfBuyBars(time_offset, profile_scale) ==
  Sum(time_offset, Minutes(SellGap * CandleMinutes))

\* line 317
SellOffset(time_offset, profile_scale) ==
  Sum(time_offset, Minutes((profile_scale + SellGap) * CandleMinutes))

\* lines 319-333: a bar for every row with a sell volume above 0, in order.
SellBars(rows, current_time, max_vol, profile_scale, sell_offset) ==
  LET rs == SelectSeq(rows, LAMBDA r : r.sell_volume > 0)
  IN  [i \in 1..Len(rs) |->
         ProfileBar(rs[i], rs[i].sell_volume, max_vol, profile_scale,
                    Sum(current_time, sell_offset), SellColor)]

\* The call returns the figure it was handed.
ProfileReturn(slf, f) ==
  [self |-> slf, orderbook_data |-> None, fig |-> f, stats |-> None,
   raised |-> NoException, writes |-> <<>>, ret |-> f]

add_order_flow_profile(slf, f, profile_df, current_time, profile_scale, offset) ==
  IF profile_df = None \/ Len(profile_df.rows) = 0 THEN ProfileReturn(slf, f)
  ELSE
    LET rows == profile_df.rows
        max_vol == PyMax(ColumnMax(rows, "buy_volume"),
                         ColumnMax(rows, "sell_volume"))
        time_offset == Minutes(offset * CandleMinutes)
        sell_offset == SellOffset(time_offset, profile_scale)
    IN  IF max_vol = 0 THEN ProfileReturn(slf, f)
        ELSE ProfileReturn(slf,
               [f EXCEPT !.shapes =
                  @ \o BuyBars(rows, current_time, max_vol, profile_scale,
                               time_offset)
                    \o SellBars(rows, current_time, max_vol, profile_scale,
                                sell_offset)])

(***************************************************************************)
(* add_orderbook_overlay, lines 445-485.                                   *)
(***************************************************************************)
\* lines 458-465: the text of the overlay, every entry read from the dict.
OverlayText(orderbook_stats) ==
  [spread |-> Format2f(orderbook_stats.spread),
   spread_pct |-> Format3f(orderbook_stats.spread_pct),
   bid_volume |-> Format2f(orderbook_stats.bid_volume),
   ask_volume |-> Format2f(orderbook_stats.ask_volume),
   volume_ratio |-> Format2f(orderbook_stats.volume_ratio),
   imbalance |-> orderbook_stats.imbalance]

\* lines 467-483: the annotation; y is in hundredths of the paper height.
OverlayAnnotation(orderbook_stats, y_position) ==
  [text |-> OverlayText(orderbook_stats),
   y |-> IF y_position = "bottom" THEN 2 ELSE 98,
   yanchor |-> IF y_position = "bottom" THEN "bottom" ELSE "top"]

add_orderbook_overlay(slf, f, orderbook_stats, y_position) ==
  IF ~Truthy(orderbook_stats)
    THEN [self |-> slf, orderbook_data |-> None, fig |-> f, stats |-> None,
          raised |-> NoException, writes |-> <<>>, ret |-> f]
    ELSE LET g == [f EXCEPT !.annotations =
                      Append(@, OverlayAnnotation(orderbook_stats, y_position))]
         IN  [self |-> slf, orderbook_data |-> None, fig |-> g, stats |-> None,
              raised |-> NoException, writes |-> <<>>, ret |-> g]

(***************************************************************************)
(* The other inputs of the calls.                                          *)
(***************************************************************************)
\* No optional input given: the defaults of the signature.
PlainTop ==
  [support_levels |-> None, resistance_levels |-> None, bsl_ssl |-> None,
   footprint_df |-> None]

\* Every optional input given.
FullTop ==
  [support_levels |-> DataFrame(<< 90 >>),
   resistance_levels |-> DataFrame(<< 110 >>),
   bsl_ssl |-> Dict(PyInt(105), PyInt(95)),
   footprint_df |-> DataFrame(<< [is_aggressive_buy |-> TRUE,
                                  is_aggressive_sell |-> FALSE],
                                 [is_aggressive_buy |-> FALSE,
                                  is_aggressive_sell |-> TRUE] >>)]

TopInputs == {PlainTop, FullTop}

\* datetime.now(dubai_tz) of a call.
Clock == {0, 1}

\* go.Figure(): a figure with nothing in it.
EmptyFigure ==
  [traces |-> <<>>, vlines |-> <<>>, hlines |-> <<>>, annotations |-> <<>>,
   title |-> None]

\* The figures add_orderbook_overlay is handed.
OverlayFigures == {EmptyFigure, TopPanel(FullTop)}

\* The statistics dicts add_orderbook_overlay is handed: made by its caller.
StatsDicts ==
  [spread : {Fraction(1, 1)},
   spread_pct : {Fraction(1, 1), Fraction(1, 16), Fraction(2, 3)},
   bid_volume : {Fraction(5, 1)},
   ask_volume : {Fraction(5, 2)},
   volume_ratio : {Fraction(2, 1)},
   imbalance : {"BUY PRESSURE", "SELL PRESSURE"}]

OverlayInputs == StatsDicts \cup {None, EmptyDict}

YPositions == {"bottom", "top"}

(***************************************************************************)
(* The state: one visualizer instance and its caller.                      *)
(***************************************************************************)
VARIABLES
  pc,              \* "idle", "ready" (the caller holds a snapshot), "returned"
  self,            \* the attributes of the instance
  orderbook_data,  \* the caller's order book object
  given,           \* the order book or statistics argument, as it was passed
  options,         \* the other arguments of the call, as they were passed
  method,          \* the method of the last call
  fig,             \* the figure the call built
  stats,           \* bid_volume, ask_volume, imbalance, spread of the call
  raised,          \* the exception the call raised
  writes,          \* the files the call wrote, in order
  ret,             \* what the call returned
  seen             \* a call an observer remembers

vars ==
  <<pc, self, orderbook_data, given, options, method, fig, stats, raised,
    writes, ret, seen>>

\* __init__, lines 7-9: the instance gets no attribute.
NoAttributes == [a \in {} |-> 0]

Init ==
  /\ pc = "idle"
  /\ self = NoAttributes
  /\ orderbook_data = None
  /\ given = None
  /\ options = None
  /\ method = "none"
  /\ fig = None
  /\ stats = None
  /\ raised = NoException
  /\ writes = <<>>
  /\ ret = None
  /\ seen = None

\* The caller obtains an order book object (a snapshot, None or {}).
Receive(inputs) ==
  /\ pc = "idle"
  /\ \E ob \in inputs : orderbook_data' = ob
  /\ pc' = "ready"
  /\ UNCHANGED <<self, given, options, method, fig, stats, raised, writes, ret,
                 seen>>

\* The effects of a call on the instance, the caller's object and the locals.
Return(name, arg, r) ==
  /\ pc' = "returned"
  /\ method' = name
  /\ given' = arg
  /\ self' = r.self
  /\ orderbook_data' = r.orderbook_data
  /\ fig' = r.fig
  /\ stats' = r.stats
  /\ raised' = r.raised
  /\ writes' = r.writes
  /\ ret' = r.ret

\* The depth traces of a figure: those not in the top panel (row 1).
DepthTraces(f) ==
  IF f = None THEN <<>> ELSE SelectSeq(f.traces, LAMBDA t : t.row # 1)

CallDepthChart ==
  /\ pc = "ready"
  /\ Return("create_orderbook_depth_chart", orderbook_data,
            create_orderbook_depth_chart(self, orderbook_data))
  /\ options' = None
  /\ UNCHANGED seen

\* create_combined_chart called with its other arguments drawn from tops.
CombinedCall(tops) ==
  /\ pc = "ready"
  /\ \E top \in tops, now \in Clock :
       /\ Return("create_combined_chart", orderbook_data,
                 create_combined_chart(self, top, orderbook_data, now))
       /\ options' = [top |-> top, now |-> now]
  /\ UNCHANGED seen

CallCombinedChart == CombinedCall(TopInputs)

CallOverlay ==
  /\ pc = "idle"
  /\ \E f \in OverlayFigures, d \in OverlayInputs, y \in YPositions :
       /\ Return("add_orderbook_overlay", d, add_orderbook_overlay(self, f, d, y))
       /\ options' = [fig |-> f, y_position |-> y]
  /\ UNCHANGED seen

\* The call is over: its locals and figure are gone, the caller drops the
\* snapshot.  The instance stays.
Discard ==
  /\ pc = "returned"
  /\ pc' = "idle"
  /\ orderbook_data' = None
  /\ given' = None
  /\ options' = None
  /\ method' = "none"
  /\ fig' = None
  /\ stats' = None
  /\ raised' = NoException
  /\ writes' = <<>>
  /\ ret' = None
  /\ UNCHANGED <<self, seen>>

Next ==
  \/ Receive(OrderbookInputs)
  \/ CallDepthChart
  \/ CallCombinedChart
  \/ CallOverlay
  \/ Discard

Spec == Init /\ [][Next]_vars

(***************************************************************************)
(* A series of calls on one instance, one of which an observer remembers.  *)
(***************************************************************************)
\* The order book objects of the series: at most one level a side, the
\* example, and the two missing objects.
SeriesInputs ==
  [symbol : Symbols,
   bids : {<<>>} \cup {<< l >> : l \in Levels},
   asks : {<<>>} \cup {<< l >> : l \in Levels}]
  \cup {ExampleSnapshot, None, EmptyDict}

\* What the observer keeps of a call: its method, the snapshot passed, the
\* depth curves and the statistics it produced; between tells whether a call
\* on another snapshot has been made since.
Observation(name, ob, r) ==
  [method |-> name, orderbook_data |-> ob, curves |-> DepthTraces(r.fig),
   stats |-> r.stats, between |-> FALSE]

\* The observer keeps the call when it has kept none yet and chooses to;
\* afterwards it notes the calls made on other snapshots.
Observe(keep, name, ob, r) ==
  seen' = IF seen = None
            THEN (IF keep THEN Observation(name, ob, r) ELSE None)
            ELSE [seen EXCEPT !.between = @ \/ ob # seen.orderbook_data]

ObservedDepthChart ==
  /\ pc = "ready"
  /\ Return("create_orderbook_depth_chart", orderbook_data,
            create_orderbook_depth_chart(self, orderbook_data))
  /\ options' = None
  /\ \E keep \in BOOLEAN :
       Observe(keep, "create_orderbook_depth_chart", orderbook_data,
               create_orderbook_depth_chart(self, orderbook_data))

ObservedCombinedChart ==
  /\ pc = "ready"
  /\ \E top \in TopInputs, now \in Clock, keep \in BOOLEAN :
       /\ Return("create_combined_chart", orderbook_data,
                 create_combined_chart(self, top, orderbook_data, now))
       /\ options' = [top |-> top, now |-> now]
       /\ Observe(keep, "create_combined_chart", orderbook_data,
                  create_combined_chart(self, top, orderbook_data, now))

NextSeries ==
  \/ Receive(SeriesInputs)
  \/ ObservedDepthChart
  \/ ObservedCombinedChart
  \/ Discard

SpecSeries == Init /\ [][NextSeries]_vars

(***************************************************************************)
(* The charts under every combination of their optional inputs.            *)
(***************************************************************************)
\* support_levels or resistance_levels: None, or a frame of up to MaxRows
\* rows holding the column 'price'.
LevelFrames(prices) ==
  {None} \cup {DataFrame(rows) :
                 rows \in UNION {[1..k -> prices] : k \in 0..MaxRows}}

\* bsl_ssl: None, or a dict in which each key is absent, None or a number.
LiquidityDicts ==
  {None} \cup {Dict(b, s) : b \in {Missing, None, PyInt(105)},
                            s \in {Missing, None, PyInt(95)}}

\* footprint_df: None, or a frame of up to MaxRows rows of the two flags.
FootprintFrames ==
  {None} \cup {DataFrame(rows) :
                 rows \in UNION {[1..k -> [is_aggressive_buy : BOOLEAN,
                                           is_aggressive_sell : BOOLEAN]] :
                                   k \in 0..MaxRows}}

RatioInputs ==
  [support_levels : LevelFrames({90}),
   resistance_levels : LevelFrames({110}),
   bsl_ssl : LiquidityDicts]

AllTopInputs ==
  [support_levels : LevelFrames({90}),
   resistance_levels : LevelFrames({110}),
   bsl_ssl : LiquidityDicts,
   footprint_df : FootprintFrames]

\* The order book objects: missing, without levels, and with levels.
PanelInputs ==
  {None, EmptyDict, ExampleSnapshot,
   [symbol |-> "BTCUSDT", bids |-> <<>>, asks |-> <<>>]}

CallCombinedChartWithOptions == CombinedCall(AllTopInputs)

CallRatioChart ==
  /\ pc = "idle"
  /\ \E top \in RatioInputs :
       /\ Return("create_altcoin_ratio_chart", None,
                 create_altcoin_ratio_chart(self, top))
       /\ options' = [top |-> top]
  /\ UNCHANGED seen

\* The volumes of a profile row; a negative one is a malformed profile.
ProfileVolumes == {-1, 0, 1, 2}

\* profile_df: None, or a frame of up to MaxRows rows, row i holding its two
\* volumes and the price band [100 + i - 1, 100 + i].
ProfileFrames ==
  {None} \cup
  {DataFrame([i \in 1..Len(vs) |->
                [buy_volume |-> vs[i][1], sell_volume |-> vs[i][2],
                 price_bottom |-> 100 + i - 1, price_top |-> 100 + i]]) :
     vs \in UNION {[1..k -> ProfileVolumes \X ProfileVolumes] :
                     k \in 0..MaxRows}}

\* A figure with its shapes: none yet, or one rectangle drawn before.
WithShapes(f, shapes) == [x \in {"shapes"} |-> shapes] @@ f

ProfileFigures ==
  {WithShapes(EmptyFigure, <<>>),
   WithShapes(EmptyFigure,
              << [type |-> "rect", x0 |-> Minutes(0), x1 |-> Minutes(15),
                  y0 |-> 90, y1 |-> 91, fillcolor |-> "white"] >>)}

\* current_time, in minutes.
CurrentTimes == {Minutes(600)}

ProfileScales == {1, DefaultProfileScale}

Offsets == {-1, 0, DefaultOffset}

CallOrderFlowProfile ==
  /\ pc = "idle"
  /\ \E f \in ProfileFigures, profile_df \in ProfileFrames,
        current_time \in CurrentTimes, profile_scale \in ProfileScales,
        offset \in Offsets :
       /\ Return("add_order_flow_profile", profile_df,
                 add_order_flow_profile(self, f, profile_df, current_time,
                                        profile_scale, offset))
       /\ options' = [fig |-> f, current_time |-> current_time,
                      profile_scale |-> profile_scale, offset |-> offset]
  /\ UNCHANGED seen

NextOptions ==
  \/ Receive(PanelInputs)
  \/ CallCombinedChartWithOptions
  \/ CallRatioChart
  \/ CallOrderFlowProfile
  \/ Discard

SpecOptions == Init /\ [][NextOptions]_vars

(***************************************************************************)
(* The properties.  They are stated on the state a chart call returns to,  *)
(* against given, the order book object as the caller passed it.           *)
(***************************************************************************)
ChartMethods == {"create_orderbook_depth_chart", "create_combined_chart"}

\* A chart call on a snapshot has returned.
ChartCall == pc = "returned" /\ method \in ChartMethods /\ Truthy(given)

\* The sum of the quantities of levels[1..i].
RECURSIVE SumThrough(_, _)
SumThrough(levels, i) ==
  IF i = 0 THEN 0 ELSE SumThrough(levels, i - 1) + levels[i][2]

Total(levels) == SumThrough(levels, Len(levels))

TracesNamed(name) == SelectSeq(fig.traces, LAMBDA t : t.name = name)

\* The figure holds exactly one trace of that name.
HasCurve(name) == Len(TracesNamed(name)) = 1

Curve(name) == TracesNamed(name)[1]

NonNegative(levels) == \A i \in 1..Len(levels) : levels[i][2] >= 0

AllZero(levels) == \A i \in 1..Len(levels) : levels[i][2] = 0

\* t is the depth curve of levels: as long, the same prices in the same
\* order, and the sum of the quantities up to each level.
IsCurveOf(t, levels) ==
  /\ Len(t.x) = Len(levels)
  /\ Len(t.y) = Len(levels)
  /\ \A i \in 1..Len(levels) :
       t.x[i] = levels[i][1] /\ t.y[i] = SumThrough(levels, i)

\* C1: the depth curve of each side is as long as the side's levels, carries
\* their prices in order, and its cumulative quantity at every index is the
\* sum of the quantities up to and including that index.
C1_CurveIsRunningSum ==
  ChartCall =>
    /\ HasCurve("Bid Depth") /\ IsCurveOf(Curve("Bid Depth"), given.bids)
    /\ HasCurve("Ask Depth") /\ IsCurveOf(Curve("Ask Depth"), given.asks)

\* C1 witness: the combined chart of the example snapshot, with its curves.
C1_Witness ==
  /\ ChartCall
  /\ method = "create_combined_chart"
  /\ given = ExampleSnapshot
  /\ Curve("Bid Depth").x = <<100, 99>>
  /\ Curve("Bid Depth").y = <<2, 5>>
  /\ Curve("Ask Depth").y = <<1, 5>>

\* y never decreases from one point to the next.
NonDecreasing(y) == \A i \in 1..(Len(y) - 1) : y[i] <= y[i + 1]

\* The curve of a non-empty side of non-negative quantities never decreases
\* and ends at the sum of all the quantities.
RisesToTotal(t, levels) ==
  (Len(levels) > 0 /\ NonNegative(levels)) =>
    /\ NonDecreasing(t.y)
    /\ Len(t.y) > 0
    /\ t.y[Len(t.y)] = Total(levels)

\* C2: for a non-empty side of non-negative quantities the cumulative values
\* are non-decreasing and the last one is the sum of all the quantities.
C2_CurveRisesToTotal ==
  ChartCall =>
    /\ RisesToTotal(Curve("Bid Depth"), given.bids)
    /\ RisesToTotal(Curve("Ask Depth"), given.asks)

\* C2 witness: a depth chart of two non-negative bid levels whose curve rises
\* from 1 to the total 2, beside a flat ask curve.
C2_Witness ==
  /\ ChartCall
  /\ method = "create_orderbook_depth_chart"
  /\ given.bids = << <<101, 1>>, <<100, 1>> >>
  /\ given.asks = << <<101, 0>>, <<101, 0>> >>
  /\ Curve("Bid Depth").y = <<1, 2>>
  /\ Curve("Ask Depth").y = <<0, 0>>

HasNegative(ob) == ~NonNegative(ob.bids) \/ ~NonNegative(ob.asks)

\* C3: a negative quantity on either side makes the computation fail with
\* InvalidInput: no depth curve is produced and no chart is written.
C3_NegativeQuantityRejected ==
  (ChartCall /\ HasNegative(given)) =>
    /\ raised = "InvalidInput"
    /\ DepthTraces(fig) = <<>>
    /\ writes = <<>>

MissingSide(ob) == ob.bids = <<>> \/ ob.asks = <<>>

\* C4: with a side missing no exception is raised, the ratio and the spread
\* are 0, the side that is present counts its full sum and the missing side
\* counts 0.
C4_MissingSideGivesZero ==
  (ChartCall /\ MissingSide(given)) =>
    /\ raised = NoException
    /\ stats.imbalance = Zero
    /\ stats.spread = 0
    /\ stats.bid_volume = Total(given.bids)
    /\ stats.ask_volume = Total(given.asks)
    /\ (given.bids = <<>> => stats.bid_volume = 0)
    /\ (given.asks = <<>> => stats.ask_volume = 0)

\* C4 witness: asks missing beside two bids; the bid volume is their sum 2.
C4_Witness ==
  /\ ChartCall
  /\ given.asks = <<>>
  /\ given.bids = << <<101, 1>>, <<100, 1>> >>
  /\ stats.bid_volume = 2
  /\ stats.ask_volume = 0
  /\ stats.imbalance = Zero
  /\ stats.spread = 0
  /\ writes # <<>>

\* C5: a total ask volume of exactly 0 gives the ratio 0, also when the ask
\* side has levels that are all 0 (the spread is then still best ask minus
\* best bid); with non-negative quantities the ratio is always a number: no
\* division by zero is raised.
C5_ZeroAskVolumeGivesZeroRatio ==
  ChartCall =>
    /\ Total(given.asks) = 0 => stats.imbalance = Zero
    /\ (given.asks # <<>> /\ AllZero(given.asks) /\ given.bids # <<>>) =>
         stats.spread = given.asks[1][1] - given.bids[1][1]
    /\ (NonNegative(given.bids) /\ NonNegative(given.asks)) =>
         /\ raised = NoException
         /\ stats.imbalance.den > 0

\* C5 witness: one ask level of quantity 0 above one bid of quantity 1.
C5_Witness ==
  /\ ChartCall
  /\ given.asks = << <<101, 0>> >>
  /\ given.bids = << <<100, 1>> >>
  /\ stats.ask_volume = 0
  /\ stats.imbalance = Zero
  /\ stats.spread = 1
  /\ raised = NoException

\* q is the quotient n / d.
IsQuotient(q, n, d) == q.den > 0 /\ q.num * d = n * q.den

\* C6: with both sides present and a positive ask volume, the bid and ask
\* volumes are the sums of the quantities, the spread is the first ask price
\* minus the first bid price and the ratio is bid volume over ask volume; the
\* example snapshot gives spread 1, volumes 5 and 5 and ratio 1.
C6_StatisticsOfFullBook ==
  (ChartCall /\ ~MissingSide(given) /\ Total(given.asks) > 0) =>
    /\ stats.bid_volume = Total(given.bids)
    /\ stats.ask_volume = Total(given.asks)
    /\ stats.spread = given.asks[1][1] - given.bids[1][1]
    /\ IsQuotient(stats.imbalance, Total(given.bids), Total(given.asks))
    /\ given = ExampleSnapshot =>
         /\ stats.spread = 1
         /\ stats.bid_volume = 5
         /\ stats.ask_volume = 5
         /\ stats.imbalance = Fraction(1, 1)

\* C6 witness: the depth chart of the example snapshot.
C6_Witness ==
  /\ ChartCall
  /\ method = "create_orderbook_depth_chart"
  /\ given = ExampleSnapshot
  /\ stats = [bid_volume |-> 5, ask_volume |-> 5, imbalance |-> Fraction(1, 1),
              spread |-> 1]
  /\ fig.title.ratio = 100

BothSides(ob) == ob.bids # <<>> /\ ob.asks # <<>>

IsRounded(v, x, scale) ==
  LET d == v * x.den - scale * x.num IN 2 * Abs(d) <= x.den

Perms(s) ==
  {[i \in 1..Len(s) |-> s[f[i]]] : f \in Permutations(1..Len(s))}

\* The call of the method of the current state made on another snapshot.
Rerun(ob) ==
  IF method = "create_orderbook_depth_chart"
    THEN create_orderbook_depth_chart(self, ob)
    ELSE create_combined_chart(self, PlainTop, ob, 0)

\* The last cumulative value of each depth trace of a figure.
FinalValues(f) ==
  LET ts == DepthTraces(f)
  IN  [i \in 1..Len(ts) |->
         IF Len(ts[i].y) = 0 THEN 0 ELSE ts[i].y[Len(ts[i].y)]]

\* The volumes, the ratio and the last value of each depth curve of a call
\* on ob are those of the current state.
SameTotals(ob) ==
  LET r == Rerun(ob)
  IN  /\ r.stats.bid_volume = stats.bid_volume
      /\ r.stats.ask_volume = stats.ask_volume
      /\ r.stats.imbalance = stats.imbalance
      /\ FinalValues(r.fig) = FinalValues(fig)

\* C8: whatever the order of the levels within a side, the bid volume, the
\* ask volume, the ratio and the last value of each depth curve are the same.
C8_TotalsIgnoreLevelOrder ==
  ChartCall =>
    /\ \A b \in Perms(given.bids) : SameTotals([given EXCEPT !.bids = b])
    /\ \A a \in Perms(given.asks) : SameTotals([given EXCEPT !.asks = a])

\* C8 witness: two bid levels whose other order gives another curve, (1, 1)
\* for (0, 1), with the same last value and the same volumes.
C8_Witness ==
  /\ ChartCall
  /\ given.bids = << <<101, 0>>, <<100, 1>> >>
  /\ given.asks = << <<101, 1>> >>
  /\ Curve("Bid Depth").y = <<0, 1>>
  /\ \E b \in Perms(given.bids) :
       LET r == Rerun([given EXCEPT !.bids = b])
       IN  /\ DepthTraces(r.fig)[1].y = <<1, 1>>
           /\ r.stats.bid_volume = stats.bid_volume
           /\ r.stats.imbalance = stats.imbalance
           /\ FinalValues(r.fig) = FinalValues(fig)

\* C9: a chart call leaves the caller's order book object as it was passed:
\* the same symbol, and the same levels in the same order on both sides.
C9_InputNotMutated ==
  (pc = "returned" /\ method \in ChartMethods) => orderbook_data = given

\* C9 witness: after the combined chart of the example snapshot, whose bid
\* curve (2, 5) differs from its quantities (2, 3), the object is unchanged.
C9_Witness ==
  /\ ChartCall
  /\ method = "create_combined_chart"
  /\ given = ExampleSnapshot
  /\ Curve("Bid Depth").y = <<2, 5>>
  /\ orderbook_data = ExampleSnapshot

\* C10: the instance carries nothing from call to call, and a call on the
\* snapshot of a remembered call of the same method gives the depth curves
\* and statistics of that call, whatever was processed since.
C10_ResultDependsOnSnapshotOnly ==
  /\ self = NoAttributes
  /\ (pc = "returned" /\ seen # None /\ method = seen.method
      /\ given = seen.orderbook_data) =>
       /\ DepthTraces(fig) = seen.curves
       /\ stats = seen.stats

\* C10 witness: the example snapshot charted again after a call on another
\* snapshot, with the remembered volumes.
C10_Witness ==
  /\ pc = "returned"
  /\ seen # None
  /\ seen.between
  /\ seen.orderbook_data = ExampleSnapshot
  /\ given = ExampleSnapshot
  /\ method = seen.method
  /\ method = "create_orderbook_depth_chart"
  /\ stats.bid_volume = 5
  /\ DepthTraces(fig) = seen.curves

\* The best bid is priced below the best ask (vacuous with a side missing).
NonCrossed(ob) ==
  (ob.bids # <<>> /\ ob.asks # <<>>) => ob.bids[1][1] < ob.asks[1][1]

\* C11: every snapshot for which statistics are produced has its best bid
\* below its best ask and no negative quantity, and the spread reported is
\* never negative: 0 with a side missing, above 0 with both sides present.
C11_SpreadNeverNegative ==
  (ChartCall /\ stats # None) =>
    /\ NonCrossed(given)
    /\ NonNegative(given.bids) /\ NonNegative(given.asks)
    /\ stats.spread >= 0
    /\ MissingSide(given) => stats.spread = 0
    /\ ~MissingSide(given) => stats.spread > 0

\* What a depth curve shows: its name, prices and cumulative quantities.
Shown(ts) ==
  [i \in 1..Len(ts) |-> [name |-> ts[i].name, x |-> ts[i].x, y |-> ts[i].y]]

\* Where the best-bid and best-ask markers stand.
Marked(ls) == [i \in 1..Len(ls) |-> [x |-> ls[i].x, text |-> ls[i].text]]

\* C12: for every non-empty snapshot the bottom panel of the combined chart
\* and the stand-alone depth chart give the same bid and ask depth curves,
\* the same best-bid and best-ask marker prices, and the same spread and
\* bid/ask ratio, as computed and as displayed.
C12_PanelEqualsDepthChart ==
  (ChartCall /\ method = "create_combined_chart") =>
    LET d == create_orderbook_depth_chart(self, given)
    IN  /\ Shown(DepthTraces(fig)) = Shown(d.fig.traces)
        /\ Marked(fig.vlines) = Marked(d.fig.vlines)
        /\ stats.spread = d.stats.spread
        /\ stats.imbalance = d.stats.imbalance
        /\ raised = d.raised
        /\ raised = NoException =>
             /\ Len(fig.annotations) = 1
             /\ fig.annotations[1] = d.fig.title

\* C12 witness: the combined chart of the example snapshot; its panel and the
\* depth chart both show the bid curve (2, 5) at prices (100, 99), markers at
\* 100 and 101, spread 1 and ratio 1.
C12_Witness ==
  /\ ChartCall
  /\ method = "create_combined_chart"
  /\ given = ExampleSnapshot
  /\ Curve("Bid Depth").y = <<2, 5>>
  /\ LET d == create_orderbook_depth_chart(self, given)
     IN  /\ d.fig.traces[1].x = <<100, 99>>
         /\ d.fig.traces[1].y = <<2, 5>>
         /\ Marked(d.fig.vlines) = << [x |-> 100, text |-> "Best Bid"],
                                      [x |-> 101, text |-> "Best Ask"] >>
         /\ Marked(fig.vlines)[2].x = 101
         /\ d.stats.spread = 1
         /\ stats.spread = 1
         /\ stats.imbalance = Fraction(1, 1)

DepthChartCall == pc = "returned" /\ method = "create_orderbook_depth_chart"

\* C13: create_orderbook_depth_chart given None or an empty snapshot object
\* returns None, builds no figure and writes no file; given any other
\* snapshot, one with two empty sides included, it writes the output file
\* exactly once and returns its name.
C13_NoDataNoChart ==
  DepthChartCall =>
    IF given \in {None, EmptyDict}
      THEN ret = None /\ fig = None /\ writes = <<>>
      ELSE /\ fig # None
           /\ writes = << DepthChartFile >>
           /\ ret = Str(DepthChartFile)

\* C13 witness: the call on an empty snapshot object has returned None.
C13_Witness ==
  /\ DepthChartCall
  /\ given = EmptyDict
  /\ ret = None
  /\ fig = None
  /\ writes = <<>>

CombinedChartCall == pc = "returned" /\ method = "create_combined_chart"

\* The content of the top panel of a figure: its traces of row 1, in order,
\* and its horizontal lines.
TopContent(f) ==
  [traces |-> SelectSeq(f.traces, LAMBDA t : t.row = 1), hlines |-> f.hlines]

Names(ts) == [i \in 1..Len(ts) |-> ts[i].name]

\* The footprint frame has a row with that flag set.
Flagged(df, flag) ==
  /\ df # None
  /\ \E i \in 1..Len(df.rows) : df.rows[i][flag]

\* C14: create_combined_chart given None or an empty snapshot object adds no
\* depth trace, no best-bid or best-ask marker and no statistics annotation,
\* adds the six top-panel traces (and the footprint traces its footprint data
\* call for), writes the output file exactly once and returns its name; and
\* with or without order book data the top panel holds the same content.
C14_NoBookKeepsTopPanel ==
  CombinedChartCall =>
    /\ ~Truthy(given) =>
         /\ DepthTraces(fig) = <<>>
         /\ fig.vlines = <<>>
         /\ fig.annotations = <<>>
         /\ Len(fig.traces) >= 6
         /\ SubSeq(Names(fig.traces), 1, 6) =
              << "BTC/USDT", "Alt Ratio [15M]", "", "SMA 50", "EMA 21",
                 "SMA 20" >>
         /\ Flagged(options.top.footprint_df, "is_aggressive_buy") <=>
              HasCurve("Aggressive Buy")
         /\ Flagged(options.top.footprint_df, "is_aggressive_sell") <=>
              HasCurve("Aggressive Sell")
         /\ writes = << CombinedFile >>
         /\ ret = Str(CombinedFile)
    /\ \A ob \in {None, EmptyDict} :
         TopContent(fig) =
           TopContent(create_combined_chart(self, options.top, ob,
                                            options.now).fig)

\* C14 witness: the combined chart without an order book, with two support
\* lines, both liquidity lines and a footprint row flagged as a buy: seven
\* traces, all in the top panel, four lines, and the file written once.
C14_Witness ==
  /\ CombinedChartCall
  /\ given = None
  /\ options.top.support_levels = DataFrame(<< 90, 90 >>)
  /\ options.top.resistance_levels = None
  /\ options.top.bsl_ssl = Dict(PyInt(105), PyInt(95))
  /\ options.top.footprint_df =
       DataFrame(<< [is_aggressive_buy |-> TRUE, is_aggressive_sell |-> FALSE] >>)
  /\ Len(fig.traces) = 7
  /\ Len(TopContent(fig).traces) = 7
  /\ Len(fig.hlines) = 4
  /\ writes = << CombinedFile >>
  /\ ret = Str(CombinedFile)

\* A call of one of the two methods that draw the moving averages has
\* returned.
AveragesCall ==
  /\ pc = "returned"
  /\ method \in {"create_altcoin_ratio_chart", "create_combined_chart"}

\* The trace at index k of the figure is filled 'to next y'.
FilledToNext(k) == fig.traces[k].fill = "tonexty"

\* C15: in create_altcoin_ratio_chart and in create_combined_chart, whatever
\* the optional inputs, the figure holds one EMA 21 trace and one SMA 20
\* trace, the SMA 20 trace is the only one filled 'to next y', and it is
\* added immediately after the EMA 21 trace, on the same axes.
C15_FillFollowsEma21 ==
  AveragesCall =>
    /\ HasCurve("EMA 21")
    /\ HasCurve("SMA 20")
    /\ Curve("SMA 20").fill = "tonexty"
    /\ \A k \in 1..Len(fig.traces) :
         FilledToNext(k) =>
           /\ fig.traces[k].name = "SMA 20"
           /\ k > 1
           /\ fig.traces[k - 1].name = "EMA 21"
           /\ fig.traces[k - 1].row = fig.traces[k].row

\* C15 witness: the combined chart of the example snapshot with support and
\* resistance lines, both liquidity lines and both footprint traces: ten
\* traces, EMA 21 the fifth and the filled SMA 20 the sixth.
C15_Witness ==
  /\ AveragesCall
  /\ method = "create_combined_chart"
  /\ given = ExampleSnapshot
  /\ options.top.support_levels = DataFrame(<< 90 >>)
  /\ options.top.resistance_levels = DataFrame(<< 110, 110 >>)
  /\ options.top.bsl_ssl = Dict(PyInt(105), PyInt(95))
  /\ Len(fig.traces) = 10
  /\ HasCurve("Aggressive Buy")
  /\ HasCurve("Aggressive Sell")
  /\ fig.traces[5].name = "EMA 21"
  /\ fig.traces[6].name = "SMA 20"
  /\ FilledToNext(6)

\* a < b and a <= b for two quotients.
Less(a, b) == a.num * b.den < b.num * a.den

AtMost(a, b) == a.num * b.den <= b.num * a.den

\* A time, in minutes, n candles after t.
CandlesAfter(t, n) == [num |-> t.num + n * 15 * t.den, den |-> t.den]

\* add_order_flow_profile has returned from a call on a profile without a
\* negative volume and with a volume above 0.
ProfileCall ==
  /\ pc = "returned"
  /\ method = "add_order_flow_profile"
  /\ given # None
  /\ \A i \in 1..Len(given.rows) :
       given.rows[i].buy_volume >= 0 /\ given.rows[i].sell_volume >= 0
  /\ \E i \in 1..Len(given.rows) :
       given.rows[i].buy_volume > 0 \/ given.rows[i].sell_volume > 0

\* The rectangles the call added to the figure it was handed.
Added == SubSeq(fig.shapes, Len(options.fig.shapes) + 1, Len(fig.shapes))

\* The rows of the profile with a volume above 0 in that column, in order.
RowsWith(column) == SelectSeq(given.rows, LAMBDA r : r[column] > 0)

\* The width of bar b is above 0 and at most profile_scale candles.
WidthInScale(b) ==
  /\ Less(b.x0, b.x1)
  /\ AtMost(b.x1, CandlesAfter(b.x0, options.profile_scale))

\* C16: for a profile with no negative volume and a positive maximum,
\* add_order_flow_profile keeps the shapes of the figure and adds one bar
\* for every row with buy_volume > 0, then one for every row with
\* sell_volume > 0, each over the price band of its row; every bar is wider
\* than 0 and at most profile_scale candles wide; every buy bar lies within
\* [current_time + offset, current_time + offset + profile_scale] candles,
\* every sell bar starts at current_time + offset + profile_scale + 2
\* candles, so that every buy bar ends before every sell bar starts; and
\* with offset >= 0 no bar starts before current_time.
C16_ProfileBarsInPlace ==
  ProfileCall =>
    LET buys == RowsWith("buy_volume")
        sells == RowsWith("sell_volume")
        t == options.current_time
        buy_start == CandlesAfter(t, options.offset)
        buy_limit == CandlesAfter(t, options.offset + options.profile_scale)
        sell_start ==
          CandlesAfter(t, options.offset + options.profile_scale + 2)
    IN  /\ ret = fig
        /\ SubSeq(fig.shapes, 1, Len(options.fig.shapes)) = options.fig.shapes
        /\ Len(Added) = Len(buys) + Len(sells)
        /\ \A i \in 1..Len(buys) :
             /\ Added[i].fillcolor = BuyColor
             /\ Added[i].y0 = buys[i].price_bottom
             /\ Added[i].y1 = buys[i].price_top
             /\ WidthInScale(Added[i])
             /\ Added[i].x0 = buy_start
             /\ AtMost(Added[i].x1, buy_limit)
             /\ Less(Added[i].x1, sell_start)
        /\ \A j \in 1..Len(sells) :
             /\ Added[Len(buys) + j].fillcolor = SellColor
             /\ Added[Len(buys) + j].y0 = sells[j].price_bottom
             /\ Added[Len(buys) + j].y1 = sells[j].price_top
             /\ WidthInScale(Added[Len(buys) + j])
             /\ Added[Len(buys) + j].x0 = sell_start
        /\ options.offset >= 0 =>
             \A k \in 1..Len(Added) : AtMost(t, Added[k].x0)

\* C16 witness: the default scale 20 and offset 5 at minute 600, a figure
\* holding a shape already, and the profile (buy 1, sell 2), (buy 2, sell 0):
\* two buy bars from minute 675, 10 and 20 candles wide, then one sell bar of
\* 20 candles from minute 1005.
C16_Witness ==
  /\ ProfileCall
  /\ options.profile_scale = 20
  /\ options.offset = 5
  /\ Len(options.fig.shapes) = 1
  /\ Len(given.rows) = 2
  /\ given.rows[1].buy_volume = 1 /\ given.rows[1].sell_volume = 2
  /\ given.rows[2].buy_volume = 2 /\ given.rows[2].sell_volume = 0
  /\ Len(Added) = 3
  /\ Added[1].x0 = Minutes(675) /\ Added[1].x1 = Minutes(825)
  /\ Added[2].x0 = Minutes(675) /\ Added[2].x1 = Minutes(975)
  /\ Added[3].x0 = Minutes(1005) /\ Added[3].x1 = Minutes(1305)
  /\ Added[3].fillcolor = SellColor

====
